---- MODULE Spec2Model ----
(***************************************************************************)
(* Verification model of the quantity take-off engine (ifc5d/qto.py), the  *)
(* alignment helper (ifcopenshell/alignment.py), the layer operators of    *)
(* Bonsai (layer/operator.py) and the structural API test of IfcOpenShell. *)
(*                                                                          *)
(* Encoding conventions                                                     *)
(*  - a Python string that is split at "_" is a sequence of its tokens:     *)
(*    "gross_get_volume" is <<"gross", "get", "volume">>; the empty string  *)
(*    and JSON null (both falsy in Python) are the empty sequence;          *)
(*  - a Python dict is a TLA+ function; {} is << >>;                        *)
(*  - magnitudes are naturals and Python None among them is NoneValue.      *)
(***************************************************************************)
EXTENDS Integers, Sequences, FiniteSets, TLC

VARIABLES
    \* ---- quantify (qto.py) ----
    elements,       \* quantify's argument: the set of elements to measure
    rules,          \* rules["calculators"], flattened in iteration order
    project_units,  \* the project's declared unit per measure type
    solid,          \* elements that have a Body representation and a MESH object
    nullFns,        \* Blender calculator functions that return None
    results,        \* quantify's ResultsDict
    calls,          \* the calls of calculator.calculate made so far
    idx,            \* position of quantify's loop over the rule entries
    pc,             \* "run", "done" or "raised" ("idle" outside quantify)
    \* ---- IteratorForTypes (qto.py) ----
    it_input,       \* the elements given to the constructor
    it_elements,    \* self.elements
    it_element,     \* self.element, 0 for None
    it_state,       \* where the driver of the iterator protocol stands
    init_ret,       \* what initialize() returned: "unset", "True" or "False"
    yielded,        \* the elements returned by get_element_and_geometry so far
    pops,           \* the number of self.elements.pop() so far
    \* ---- edit_qtos (qto.py) ----
    edit_results,   \* the ResultsDict given to edit_qtos
    eq_file,        \* the quantity sets of the file and the elements they define
    eq_before,      \* the file before the first application
    eq_first,       \* the file after the first application
    eq_todo,        \* the (element, name) pairs the loops still have to visit
    eq_round,       \* 1 or 2: the application under way; 3 after the second
    \* ---- test_edit_structural_analysis_model.py ----
    st_schema,      \* the schema of the test's file: "IFC4" or "IFC2X3"
    st_file,        \* the entities of the test's file, in id order
    st_attributes,  \* the attributes given to edit_structural_analysis_model
    st_subject,     \* the id of the test's subject, 0 before it is added
    st_state,       \* "setup", "added" or "edited"
    \* ---- evaluate_*, generate_vertices (alignment.py) ----
    al_fn,          \* the function that is called
    al_is_a,        \* is_a() of the entity given (segment or representation)
    al_length,      \* SegmentLength of the segment, or the length of the curve
    al_dist,        \* dist_along
    al_none,        \* rep_curve is None
    al_verts,       \* shape.verts of the created shape
    al_out,         \* the outcome of the call, "pending" before it
    \* ---- IfcAlignmentHelper._create_horizontal_alignment (alignment.py) ----
    hz_points,      \* points: the PIs, the start (POB) and the end (POE) included
    hz_radii,       \* radii: one radius per interior PI
    include_geometry,
    hz_i,           \* i, the index in points of the PI the loop stands at
    hz_BT,          \* (xBT, yBT): the start of the tangent run under way
    horizontal_segments,        \* the design parameters, in list order
    horizontal_curve_segments,  \* the curve segments, in list order
    composite_curve,            \* the third value returned
    hz_state,       \* "loop", "returned" or "ZeroDivisionError"
    \* ---- IfcAlignmentHelper.add_alignment, add_vertical_alignment (alignment.py) ----
    segment_names,  \* Name of each entry of horizontal_segments, once they are named
    segment_representations,  \* Representation of each entry of horizontal_segments
    ifc_file,       \* the entities the helper has added to the file, the segments aside
    add_state,      \* _add_horizontal_alignment: "pending", "named" or "added"
    vertical_ret,   \* what add_vertical_alignment returned, "pending" before the call
    \* ---- bim.load_layers and the layer editing operators (layer/operator.py) ----
    ly_file,        \* by_type("IfcPresentationLayerAssignment") of the file, in its order
    props_layers,   \* props.layers of BIMLayerProperties
    is_editing,     \* props.is_editing
    active_layer_id,  \* props.active_layer_id
    ly_last         \* the operator that ran last, "none" before the first

qtoVars == <<elements, rules, project_units, solid, nullFns, results, calls, idx, pc>>

iterVars == <<it_input, it_elements, it_element, it_state, init_ret, yielded, pops>>

editVars == <<edit_results, eq_file, eq_before, eq_first, eq_todo, eq_round>>

structVars == <<st_schema, st_file, st_attributes, st_subject, st_state>>

alignVars == <<al_fn, al_is_a, al_length, al_dist, al_none, al_verts, al_out>>

horizVars == <<hz_points, hz_radii, include_geometry, hz_i, hz_BT, horizontal_segments,
               horizontal_curve_segments, composite_curve, hz_state>>

addVars == <<segment_names, segment_representations, ifc_file, add_state, vertical_ret>>

layerVars == <<ly_file, props_layers, is_editing, active_layer_id, ly_last>>

vars == <<qtoVars, iterVars, editVars, structVars, alignVars, horizVars, addVars, layerVars>>

\* What the operations of one component leave alone: the other components.
notQto == <<iterVars, editVars, structVars, alignVars, horizVars, addVars, layerVars>>

notIter == <<qtoVars, editVars, structVars, alignVars, horizVars, addVars, layerVars>>

notEdit == <<qtoVars, iterVars, structVars, alignVars, horizVars, addVars, layerVars>>

notStruct == <<qtoVars, iterVars, editVars, alignVars, horizVars, addVars, layerVars>>

notAlign == <<qtoVars, iterVars, editVars, structVars, horizVars, addVars, layerVars>>

notHoriz == <<qtoVars, iterVars, editVars, structVars, alignVars, addVars, layerVars>>

notAdd == <<qtoVars, iterVars, editVars, structVars, alignVars, horizVars, layerVars>>

notLayer == <<qtoVars, iterVars, editVars, structVars, alignVars, horizVars, addVars>>

\* ------------------------------------------------------------------ bounds

NumElements == 3

ElementIds == 1..NumElements

NoneValue == -1

\* ------------------------------------------------------- the IFC file read

\* element.is_a(): the exact class of an element.
IsA(e) ==
    CASE e % 3 = 1 -> "IfcWall"
      [] e % 3 = 2 -> "IfcWallType"
      [] OTHER     -> "IfcSlab"

IsTypeProduct(e) == IsA(e) \in {"IfcWallType", "IfcSlabType"}

\* ifcopenshell.util.type.get_applicable_types(ifc_class, schema)
get_applicable_types(ifc_class, schema) ==
    CASE ifc_class = "IfcWall" -> <<"IfcWallType">>
      [] ifc_class = "IfcSlab" -> <<"IfcSlabType">>
      [] OTHER                 -> << >>

HasBodyRepresentation(e) == e \in solid

\* tool.Ifc.get_object(element).type, "NONE" when the element has no object.
ObjectType(e) ==
    IF e \notin solid THEN "NONE"
    ELSE IF e % 3 = 0 THEN "EMPTY" ELSE "MESH"

\* The single item of the element's Model/Body/MODEL_VIEW representation.
BodyItem(e) ==
    CASE e % 5 = 1 -> [items |-> 1, item |-> "IfcExtrudedAreaSolid",
                       profile |-> "IfcRectangleProfileDef", XDim |-> 2, YDim |-> 5, Depth |-> 3]
      [] e % 5 = 2 -> [items |-> 1, item |-> "IfcExtrudedAreaSolid",
                       profile |-> "IfcCircleProfileDef", XDim |-> 0, YDim |-> 0, Depth |-> 4]
      [] e % 5 = 3 -> [items |-> 1, item |-> "IfcExtrudedAreaSolid",
                       profile |-> "IfcArbitraryClosedProfileDef", XDim |-> 0, YDim |-> 0, Depth |-> 6]
      [] e % 5 = 4 -> [items |-> 1, item |-> "IfcExtrudedAreaSolid",
                       profile |-> "IfcIShapeProfileDef", XDim |-> 0, YDim |-> 0, Depth |-> 7]
      [] OTHER     -> [items |-> 2, item |-> "IfcFacetedBrep",
                       profile |-> "", XDim |-> 0, YDim |-> 0, Depth |-> 0]

ParameterizedProfiles == {"IfcRectangleProfileDef", "IfcCircleProfileDef", "IfcIShapeProfileDef"}

Max2(a, b) == IF a >= b THEN a ELSE b

\* ------------------------------------------------------------- unit conversion

Measures == {"IfcAreaMeasure", "IfcLengthMeasure", "IfcMassMeasure", "IfcTimeMeasure", "IfcVolumeMeasure"}

NoUnit == [Prefix |-> "NOPREFIX", Name |-> "NOUNIT"]

si_names ==
    [m \in Measures |->
        CASE m = "IfcAreaMeasure"   -> "SQUARE_METRE"
          [] m = "IfcLengthMeasure" -> "METRE"
          [] m = "IfcMassMeasure"   -> "GRAM"
          [] m = "IfcTimeMeasure"   -> "SECOND"
          [] OTHER                  -> "CUBIC_METRE"]

\* ifcopenshell.util.unit.convert(value, None, from_unit, to_prefix, to_unit)
\* between an SI unit and the same unit with a prefix: the prefix multiplier
\* is applied once per dimension of the unit.
UnitDimension(unit) ==
    CASE unit = "SQUARE_METRE" -> 2
      [] unit = "CUBIC_METRE"  -> 3
      [] OTHER                 -> 1

PrefixScale(prefix) == IF prefix = "DECI" THEN 10 ELSE 1

RECURSIVE Power(_, _)
Power(b, n) == IF n = 0 THEN 1 ELSE b * Power(b, n - 1)

UnitConvert(value, from_unit, to_prefix, to_unit) ==
    value * Power(PrefixScale(to_prefix), UnitDimension(to_unit))

\* SI2ProjectUnitConverter.convert
convert(value, measure) ==
    IF (measure \in DOMAIN project_units) /\ project_units[measure] # NoUnit
    THEN UnitConvert(value, si_names[measure],
                     project_units[measure].Prefix, project_units[measure].Name)
    ELSE value

\* The (Prefix, Name) pairs SI2ProjectUnitConverter.__init__ can compute.
UnitConfigs ==
    LET declared(p) == [m \in Measures |-> [Prefix |-> p, Name |-> si_names[m]]]
    IN  { [m \in Measures |-> NoUnit],
          declared("NOPREFIX"),
          declared("DECI"),
          [m \in Measures |-> IF m = "IfcLengthMeasure"
                              THEN [Prefix |-> "DECI", Name |-> "METRE"] ELSE NoUnit] }

\* ------------------------------------------------------------ formula names

get_segment_length_name == <<"get", "segment", "length">>

StartsWith(formula, prefix) == Len(formula) >= 2 /\ formula[1] = prefix

EndsWith(formula, suffix) ==
    /\ Len(formula) >= Len(suffix)
    /\ SubSeq(formula, Len(formula) - Len(suffix) + 1, Len(formula)) = suffix

\* formula.partition("_")[2]: what follows the first underscore.
Partition2(formula) == IF Len(formula) >= 2 THEN Tail(formula) ELSE << >>

\* IfcOpenShell.raw_functions: name -> measure (the entries the rules below use).
raw_functions ==
    [f \in {<<"get", "x">>, <<"get", "area">>, <<"get", "volume">>, get_segment_length_name} |->
        CASE f = <<"get", "area">>   -> "IfcAreaMeasure"
          [] f = <<"get", "volume">> -> "IfcVolumeMeasure"
          [] OTHER                   -> "IfcLengthMeasure"]

\* The functions of ifcopenshell.util.shape that getattr can find.
ShapeFunctions == {<<"get", "x">>, <<"get", "area">>, <<"get", "volume">>}

\* ifcopenshell.util.shape.<formula>(geometry): the raw SI value measured on the
\* element's triangulated geometry under the given settings.
ShapeValue(settings, e, formula) ==
    CASE formula = <<"get", "x">>    -> e + 1
      [] formula = <<"get", "area">> -> 2 * e + 1
      [] OTHER                       -> 3 * e + 2

\* Blender.functions: name -> measure (the entries the rules below use).
BlenderFunctions ==
    [f \in {<<"get", "height">>, <<"get", "net", "volume">>, <<"get", "net", "side", "area">>} |->
        CASE f = <<"get", "height">>        -> "IfcLengthMeasure"
          [] f = <<"get", "net", "volume">> -> "IfcVolumeMeasure"
          [] OTHER                          -> "IfcAreaMeasure"]

\* bonsai.bim.module.qto.calculator.<formula>(obj): a raw SI value or None.
CalculatorValue(e, formula) ==
    IF formula \in nullFns THEN NoneValue
    ELSE CASE formula = <<"get", "height">>        -> e + 2
           [] formula = <<"get", "net", "volume">> -> 2 * e + 3
           [] OTHER                                -> 3 * e + 1

\* -------------------------------------------------------- IteratorForTypes

\* Mutant: every element is taken to have a representation.
process_shape_always(element) == TRUE

\* IteratorForTypes.process_shape
process_shape(element) == HasBodyRepresentation(element)

\* IteratorForTypes.next: pops from the end of self.elements until
\* process_shape succeeds; n counts the pops.
RECURSIVE NextLoop(_, _)
NextLoop(els, n) ==
    IF els = << >>
    THEN [ret |-> FALSE, element |-> 0, elements |-> els, pops |-> n]
    ELSE LET element == els[Len(els)]
             rest == SubSeq(els, 1, Len(els) - 1)
         IN  IF process_shape(element)
             THEN [ret |-> TRUE, element |-> element, elements |-> rest, pops |-> n + 1]
             ELSE NextLoop(rest, n + 1)

\* The elements an IteratorForTypes yields when driven by initialize() and
\* next() until next() returns False, as the task loop of calculate drives it.
RECURSIVE DrainTypes(_)
DrainTypes(els) ==
    LET r == NextLoop(els, 0)
    IN  IF r.ret THEN {r.element} \cup DrainTypes(r.elements) ELSE {}

\* The elements ifcopenshell.geom.iterator(settings, file, n, include=...) yields:
\* the products of include that have a representation to triangulate.
GeomIteratorYields(include) ==
    {e \in include : ~IsTypeProduct(e) /\ HasBodyRepresentation(e)}

\* list(a set), in some order.
RECURSIVE SetToSeq(_)
SetToSeq(S) ==
    IF S = {} THEN << >>
    ELSE LET x == CHOOSE y \in S : \A z \in S : y <= z
         IN  <<x>> \o SetToSeq(S \ {x})

\* IfcOpenShell.create_iterators
\* Mutant: the geometry iterator is given elements_sorted[False] only.
create_iterators_partitioned(settings, els) ==
    LET types == SelectSeq(els, IsTypeProduct)
        others == SelectSeq(els, LAMBDA e : ~IsTypeProduct(e))
    IN  (IF types # << >> THEN <<[kind |-> "IteratorForTypes", elements |-> types]>> ELSE << >>)
        \o (IF others # << >>
            THEN <<[kind |-> "iterator", elements |-> others]>> ELSE << >>)

create_iterators(settings, els) ==
    LET types == SelectSeq(els, IsTypeProduct)
        others == SelectSeq(els, LAMBDA e : ~IsTypeProduct(e))
    IN  (IF types # << >> THEN <<[kind |-> "IteratorForTypes", elements |-> types]>> ELSE << >>)
        \o (IF others # << >>
            THEN <<[kind |-> "iterator", elements |-> els]>> ELSE << >>)

IteratorYields(iterator) ==
    IF iterator.kind = "IteratorForTypes"
    THEN DrainTypes(iterator.elements)
    ELSE GeomIteratorYields({iterator.elements[i] : i \in 1..Len(iterator.elements)})

\* ------------------------------------------------------ IfcOpenShell calculator

\* IfcOpenShell.get_segment_length. The last branch reads the undefined name
\* `settings`; the bare except turns the NameError into a return of None.
get_segment_length(e) ==
    IF HasBodyRepresentation(e) /\ BodyItem(e).items = 1
       /\ BodyItem(e).item = "IfcExtrudedAreaSolid"
    THEN LET item == BodyItem(e)
         IN  CASE item.profile = "IfcRectangleProfileDef" ->
                      Max2(item.XDim, Max2(item.YDim, item.Depth))
               [] item.profile = "IfcCircleProfileDef" -> item.Depth
               [] item.profile \in ParameterizedProfiles -> item.Depth
               [] OTHER -> NoneValue
    ELSE NoneValue

\* The classification of the formulas (the loop that fills gross_qtos, net_qtos
\* and formula_functions).
IsKept(formula) ==
    /\ formula # << >>
    /\ \/ EndsWith(formula, get_segment_length_name)
       \/ StartsWith(formula, "gross")
       \/ StartsWith(formula, "net")

IsGross(formula) == StartsWith(formula, "gross")

SelectQtos(qtos, gross) ==
    LET keep(n) == {q \in DOMAIN qtos[n] : IsKept(qtos[n][q]) /\ (IsGross(qtos[n][q]) <=> gross)}
    IN  [n \in {m \in DOMAIN qtos : keep(m) # {}} |->
            [q \in keep(n) |-> Partition2(qtos[n][q])]]

gross_qtos(qtos) == SelectQtos(qtos, TRUE)

net_qtos(qtos) == SelectQtos(qtos, FALSE)

\* The formulas looked up with getattr(ifcopenshell.util.shape, formula).
LookedUp(qtos) ==
    {Partition2(qtos[n][q]) : <<n, q>> \in
        {nq \in UNION {{<<n, q>> : q \in DOMAIN qtos[n]} : n \in DOMAIN qtos} :
            LET f == qtos[nq[1]][nq[2]]
            IN  /\ IsKept(f)
                /\ ~EndsWith(f, get_segment_length_name)}}

\* The keys of formula_functions when the classification succeeds.
formula_functions(qtos) == LookedUp(qtos) \cap ShapeFunctions

\* tasks: the iterators of gross_qtos, then those of net_qtos; both are created
\* with cls.gross_settings.
Tasks(els, qtos) ==
    LET its == create_iterators("gross_settings", SetToSeq(els))
        pair(q_) == [i \in 1..Len(its) |-> [iterator |-> its[i], qtos_ |-> q_]]
    IN  (IF DOMAIN gross_qtos(qtos) # {} THEN pair(gross_qtos(qtos)) ELSE << >>)
        \o (IF DOMAIN net_qtos(qtos) # {} THEN pair(net_qtos(qtos)) ELSE << >>)

\* Mutant: the shape value is stored without the unit conversion.
TaskValueUnconverted(e, formula) ==
    IF formula = get_segment_length_name
    THEN get_segment_length(e)
    ELSE ShapeValue("gross_settings", e, formula)

\* The value the task loop stores for one quantity.
TaskValue(e, formula) ==
    IF formula = get_segment_length_name
    THEN get_segment_length(e)
    ELSE convert(ShapeValue("gross_settings", e, formula), raw_functions[formula])

\* A failed lookup: getattr in the classification (AttributeError), or
\* formula_functions[formula] in the task loop once an element is yielded (KeyError).
CalculateRaises(els, qtos) ==
    \/ LookedUp(qtos) \ ShapeFunctions # {}
    \/ \E i \in 1..Len(Tasks(els, qtos)) :
          LET t == Tasks(els, qtos)[i]
          IN  /\ IteratorYields(t.iterator) # {}
              /\ \E n \in DOMAIN t.qtos_ : \E q \in DOMAIN t.qtos_[n] :
                    /\ t.qtos_[n][q] # get_segment_length_name
                    /\ t.qtos_[n][q] \notin formula_functions(qtos)

\* The body of the task loop for one yielded element: setdefault on the element
\* and on every quantity set name, then one assignment per quantity.
StoreElement(old, e, qtos_) ==
    [n \in DOMAIN old \cup DOMAIN qtos_ |->
        IF n \in DOMAIN qtos_
        THEN [q \in (IF n \in DOMAIN old THEN DOMAIN old[n] ELSE {}) \cup DOMAIN qtos_[n] |->
                 IF q \in DOMAIN qtos_[n] THEN TaskValue(e, qtos_[n][q]) ELSE old[n][q]]
        ELSE old[n]]

RunTask(res, task) ==
    LET ys == IteratorYields(task.iterator)
    IN  [e \in DOMAIN res \cup ys |->
            IF e \in ys
            THEN StoreElement(IF e \in DOMAIN res THEN res[e] ELSE << >>, e, task.qtos_)
            ELSE res[e]]

RECURSIVE RunTasks(_, _)
RunTasks(res, tasks) ==
    IF tasks = << >> THEN res ELSE RunTasks(RunTask(res, Head(tasks)), Tail(tasks))

\* IfcOpenShell.calculate, when no lookup fails.
IfcOpenShellCalculate(els, qtos, res) == RunTasks(res, Tasks(els, qtos))

\* ----------------------------------------------------------- Blender calculator

\* qto_results of one quantity set for one object.
QtoResults(e, quantities) ==
    [q \in {k \in DOMAIN quantities :
                /\ quantities[k] # << >>
                /\ CalculatorValue(e, quantities[k]) # NoneValue} |->
        convert(CalculatorValue(e, quantities[q]), BlenderFunctions[quantities[q]])]

ElementResults(e, qtos) ==
    [n \in {m \in DOMAIN qtos : DOMAIN QtoResults(e, qtos[m]) # {}} |-> QtoResults(e, qtos[n])]

\* Mutant: the guard `if element_results:` is missing.
BlenderCalculateAddsEmpty(els, qtos, res) ==
    LET written == {e \in els : ObjectType(e) = "MESH"}
    IN  [e \in DOMAIN res \cup written |->
            IF e \in written THEN ElementResults(e, qtos) ELSE res[e]]

\* Blender.calculate
BlenderCalculate(els, qtos, res) ==
    LET written == {e \in els : ObjectType(e) = "MESH" /\ DOMAIN ElementResults(e, qtos) # {}}
    IN  [e \in DOMAIN res \cup written |->
            IF e \in written THEN ElementResults(e, qtos) ELSE res[e]]

\* --------------------------------------------------------------------- quantify

\* Quantity sets of the rule tables: name -> quantity -> formula.
QtoMixed ==
    "Qto_Base" :> ("GrossVolume" :> <<"gross", "get", "volume">>
                   @@ "NetArea" :> <<"net", "get", "area">>
                   @@ "Unused" :> << >>)

QtoSegment ==
    "Qto_Seg" :> ("Length" :> <<"net", "get", "segment", "length">>
                  @@ "Width" :> <<"gross", "get", "x">>)

QtoBare == "Qto_Seg" :> ("Length" :> get_segment_length_name)

QtoDropped == "Qto_Base" :> ("Depth" :> <<"get", "x">>)

QtoBlender ==
    ("Qto_Base" :> ("NetVolume" :> <<"get", "net", "volume">>
                    @@ "Height" :> <<"get", "height">>
                    @@ "Unused" :> << >>))
    @@ ("Qto_Side" :> ("Area" :> <<"get", "net", "side", "area">>))

Entry(calculator, ifc_class, qtos) ==
    [calculator |-> calculator, ifc_class |-> ifc_class, qtos |-> qtos]

\* rules["calculators"] as the sequence of (calculator, ifc_class, qtos) that the
\* two nested loops of quantify visit.
RuleSets ==
    { << >>,
      <<Entry("IfcOpenShell", "IfcWall", QtoSegment), Entry("IfcOpenShell", "IfcSlab", QtoMixed)>>,
      <<Entry("Blender", "IfcWall", QtoBlender), Entry("Blender", "IfcWallType", QtoBlender)>>,
      <<Entry("IfcOpenShell", "IfcWall", QtoMixed), Entry("IfcOpenShell", "IfcSlab", QtoSegment),
        Entry("Blender", "IfcWall", QtoBlender), Entry("Blender", "IfcSlab", QtoBlender)>>,
      <<Entry("IfcOpenShell", "IfcWall", QtoBare), Entry("IfcOpenShell", "IfcSlab", QtoMixed)>>,
      <<Entry("IfcOpenShell", "IfcSlab", QtoDropped), Entry("IfcOpenShell", "IfcWallType", QtoMixed)>> }

\* elements_by_classes
elements_by_classes == [c \in {IsA(e) : e \in elements} |-> {e \in elements : IsA(e) = c}]

\* filtered_elements of one rule class: the loop over [ifc_class] + applicable types.
RECURSIVE FilterLoop(_, _)
FilterLoop(ifc_classes, filtered) ==
    IF ifc_classes = << >> THEN filtered
    ELSE IF Head(ifc_classes) \notin DOMAIN elements_by_classes
         THEN FilterLoop(Tail(ifc_classes), filtered)
         ELSE FilterLoop(Tail(ifc_classes), filtered \cup elements_by_classes[Head(ifc_classes)])

\* Mutant: the applicable type classes are not looked at.
filtered_elements_without_types(ifc_class) == FilterLoop(<<ifc_class>>, {})

filtered_elements(ifc_class) ==
    FilterLoop(<<ifc_class>> \o get_applicable_types(ifc_class, "IFC4"), {})

\* The guard of the call: `if filtered_elements:`.
ShouldCalculate(filtered) == filtered # {}

Call(i, filtered) ==
    [entry |-> i, calculator |-> rules[i].calculator, elements |-> filtered]

\* The calculator functions that return None for the objects at hand.
NullFnChoices ==
    { {},
      {<<"get", "height">>},
      {<<"get", "height">>, <<"get", "net", "volume">>},
      {<<"get", "height">>, <<"get", "net", "volume">>, <<"get", "net", "side", "area">>} }

QtoInit ==
    /\ elements \in SUBSET ElementIds
    /\ rules \in RuleSets
    /\ project_units \in UnitConfigs
    /\ solid \in SUBSET ElementIds
    /\ nullFns \in NullFnChoices
    /\ results = << >>
    /\ calls = << >>
    /\ idx = 1
    /\ pc = "run"

QtoInputsUnchanged == UNCHANGED <<elements, rules, project_units, solid, nullFns, notQto>>

\* One iteration of quantify's loops whose filtered set is empty.
QuantifySkip ==
    /\ pc = "run" /\ idx <= Len(rules)
    /\ ~ShouldCalculate(filtered_elements(rules[idx].ifc_class))
    /\ idx' = idx + 1
    /\ UNCHANGED <<results, calls, pc>>
    /\ QtoInputsUnchanged

\* One iteration that calls Blender.calculate.
QuantifyBlender ==
    /\ pc = "run" /\ idx <= Len(rules)
    /\ rules[idx].calculator = "Blender"
    /\ LET filtered == filtered_elements(rules[idx].ifc_class)
       IN  /\ ShouldCalculate(filtered)
           /\ calls' = Append(calls, Call(idx, filtered))
           /\ results' = BlenderCalculate(filtered, rules[idx].qtos, results)
    /\ idx' = idx + 1
    /\ UNCHANGED pc
    /\ QtoInputsUnchanged

\* One iteration that calls IfcOpenShell.calculate, which returns.
QuantifyIfcOpenShell ==
    /\ pc = "run" /\ idx <= Len(rules)
    /\ rules[idx].calculator = "IfcOpenShell"
    /\ LET filtered == filtered_elements(rules[idx].ifc_class)
       IN  /\ ShouldCalculate(filtered)
           /\ ~CalculateRaises(filtered, rules[idx].qtos)
           /\ calls' = Append(calls, Call(idx, filtered))
           /\ results' = IfcOpenShellCalculate(filtered, rules[idx].qtos, results)
    /\ idx' = idx + 1
    /\ UNCHANGED pc
    /\ QtoInputsUnchanged

\* One iteration that calls IfcOpenShell.calculate, which raises: the exception
\* leaves quantify, whose local results are never returned.
QuantifyRaises ==
    /\ pc = "run" /\ idx <= Len(rules)
    /\ rules[idx].calculator = "IfcOpenShell"
    /\ LET filtered == filtered_elements(rules[idx].ifc_class)
       IN  /\ ShouldCalculate(filtered)
           /\ CalculateRaises(filtered, rules[idx].qtos)
           /\ calls' = Append(calls, Call(idx, filtered))
    /\ idx' = idx + 1
    /\ pc' = "raised"
    /\ UNCHANGED results
    /\ QtoInputsUnchanged

\* `return results`
QuantifyReturn ==
    /\ pc = "run" /\ idx > Len(rules)
    /\ pc' = "done"
    /\ UNCHANGED <<results, calls, idx>>
    /\ QtoInputsUnchanged

\* ------------------------------------------------------- claims on quantify

\* The input elements whose exact class is the rule class of entry i or one of
\* its applicable type classes.
ExpectedElements(i) ==
    LET types == get_applicable_types(rules[i].ifc_class, "IFC4")
    IN  {e \in elements :
            \/ IsA(e) = rules[i].ifc_class
            \/ \E k \in 1..Len(types) : IsA(e) = types[k]}

CallsOf(i) == {k \in 1..Len(calls) : calls[k].entry = i}

\* C1: for every (calculator, rule class, qtos) entry quantify calls that
\* calculator at most once, with exactly the input elements whose exact class is
\* the rule class or one of its applicable type classes; an entry already visited
\* was called exactly when that set is not empty.
C1_QuantifyDispatch ==
    \A i \in 1..Len(rules) :
        /\ Cardinality(CallsOf(i)) <= 1
        /\ \A k \in CallsOf(i) :
              /\ calls[k].calculator = rules[i].calculator
              /\ calls[k].elements = ExpectedElements(i)
              /\ calls[k].elements # {}
        /\ (i < idx) => ((CallsOf(i) # {}) <=> (ExpectedElements(i) # {}))

\* quantify returned after one call that received an occurrence together with
\* its type, and after skipping an entry whose set was empty.
C1_Witness ==
    /\ pc = "done"
    /\ \E k \in 1..Len(calls) : {1, 2} \subseteq calls[k].elements
    /\ \E i \in 1..Len(rules) : CallsOf(i) = {}

\* The rule entries that were called with element e and name quantity q of set n.
Producers(e, n, q) ==
    {i \in 1..Len(rules) :
        /\ \E k \in CallsOf(i) : e \in calls[k].elements
        /\ n \in DOMAIN rules[i].qtos
        /\ q \in DOMAIN rules[i].qtos[n]
        /\ rules[i].qtos[n][q] # << >>}

IsSegmentLengthFormula(i, formula) ==
    rules[i].calculator = "IfcOpenShell" /\ Partition2(formula) = get_segment_length_name

\* The raw SI value of a formula on an element and the formula's measure type.
RawSI(i, e, formula) ==
    IF rules[i].calculator = "Blender" THEN CalculatorValue(e, formula)
    ELSE IF IsSegmentLengthFormula(i, formula) THEN get_segment_length(e)
    ELSE ShapeValue("gross_settings", e, Partition2(formula))

MeasureOf(i, formula) ==
    IF rules[i].calculator = "Blender" THEN BlenderFunctions[formula]
    ELSE raw_functions[Partition2(formula)]

\* The value in the project-declared unit of the measure; the value itself
\* when the project declares no unit for that measure.
InProjectUnit(value, measure) ==
    IF project_units[measure] = NoUnit THEN value
    ELSE value * Power(PrefixScale(project_units[measure].Prefix), UnitDimension(si_names[measure]))

StoredValues ==
    {<<e, n, q>> \in UNION {UNION {{<<e, n, q>> : q \in DOMAIN results[e][n]}
                                   : n \in DOMAIN results[e]} : e \in DOMAIN results} : TRUE}

\* C2 as stated: every stored quantity value, for every formula of either
\* calculator, is the raw SI value converted into the project unit of the
\* formula's measure type.
C2_EveryValueConverted ==
    \A enq \in StoredValues :
        \E i \in Producers(enq[1], enq[2], enq[3]) :
            LET f == rules[i].qtos[enq[2]][enq[3]]
            IN  results[enq[1]][enq[2]][enq[3]] = InProjectUnit(RawSI(i, enq[1], f), MeasureOf(i, f))

\* C2 amended: every stored quantity value is the raw SI value converted into
\* the project unit of the formula's measure type, except the values of the
\* get_segment_length formulas of the IfcOpenShell calculator, which are stored
\* exactly as get_segment_length returns them.
C2_ValuesConvertedExceptSegmentLength ==
    \A enq \in StoredValues :
        \E i \in Producers(enq[1], enq[2], enq[3]) :
            LET f == rules[i].qtos[enq[2]][enq[3]]
                v == results[enq[1]][enq[2]][enq[3]]
            IN  IF IsSegmentLengthFormula(i, f)
                THEN v = get_segment_length(enq[1])
                ELSE v = InProjectUnit(RawSI(i, enq[1], f), MeasureOf(i, f))

\* quantify returned values of both kinds under a prefixed length unit: a
\* converted width and an unconverted segment length.
C2_Witness ==
    /\ pc = "done"
    /\ project_units["IfcLengthMeasure"].Prefix = "DECI"
    /\ 1 \in DOMAIN results
    /\ "Qto_Seg" \in DOMAIN results[1]
    /\ results[1]["Qto_Seg"]["Width"] = 20
    /\ results[1]["Qto_Seg"]["Length"] = 5

\* The step of quantify that calls Blender.calculate.
BlenderStep ==
    /\ pc = "run" /\ idx <= Len(rules)
    /\ rules[idx].calculator = "Blender"
    /\ idx' = idx + 1

\* C5: Blender.calculate never adds empty entries. Every entry of results after
\* the call is either the entry from before the call or belongs to an element of
\* the call that has a MESH object; such an entry has no empty quantity set and
\* holds only quantities whose formula is not empty and did not return None.
C5_BlenderNoEmptyEntries ==
    [][BlenderStep =>
        \A e \in DOMAIN results' :
            \/ e \in DOMAIN results /\ results'[e] = results[e]
            \/ /\ e \in ExpectedElements(idx)
               /\ ObjectType(e) = "MESH"
               /\ DOMAIN results'[e] # {}
               /\ \A n \in DOMAIN results'[e] :
                     /\ n \in DOMAIN rules[idx].qtos
                     /\ DOMAIN results'[e][n] # {}
                     /\ \A q \in DOMAIN results'[e][n] :
                           /\ q \in DOMAIN rules[idx].qtos[n]
                           /\ rules[idx].qtos[n][q] # << >>
                           /\ CalculatorValue(e, rules[idx].qtos[n][q]) # NoneValue]_vars

\* Blender.calculate was called with an element that got no entry, and wrote for
\* another element an entry from which a quantity set whose formulas all
\* returned None is missing.
C5_Witness ==
    /\ pc = "done"
    /\ \E k \in 1..Len(calls) :
          /\ calls[k].calculator = "Blender"
          /\ \E e \in calls[k].elements : e \notin DOMAIN results
          /\ \E e \in calls[k].elements :
                /\ e \in DOMAIN results
                /\ DOMAIN results[e] = {"Qto_Side"}

\* ------------------------------------------- claims on IfcOpenShell.calculate
\* The qtos of the calls of IfcOpenShell.calculate made so far.
IfcOpenShellCalls == {k \in 1..Len(calls) : calls[k].calculator = "IfcOpenShell"}

QtosOf(k) == rules[calls[k].entry].qtos

\* The formulas the classification stored in gross_qtos or net_qtos.
StoredFormulas(qtos) ==
    UNION {{gross_qtos(qtos)[n][q] : q \in DOMAIN gross_qtos(qtos)[n]} : n \in DOMAIN gross_qtos(qtos)}
    \cup
    UNION {{net_qtos(qtos)[n][q] : q \in DOMAIN net_qtos(qtos)[n]} : n \in DOMAIN net_qtos(qtos)}

StoredQuantities(qtos) ==
    UNION {{<<n, q>> : q \in DOMAIN gross_qtos(qtos)[n]} : n \in DOMAIN gross_qtos(qtos)}
    \cup
    UNION {{<<n, q>> : q \in DOMAIN net_qtos(qtos)[n]} : n \in DOMAIN net_qtos(qtos)}

\* C15: every formula the classification stores of a non-empty formula of
\* the rules, a get_segment_length without prefix included, is exactly
\* get_segment_length or a key of formula_functions and of raw_functions, so
\* that no lookup of the task loop fails; a formula with neither prefix that
\* does not end in get_segment_length is dropped.
C15_StoredFormulasResolve ==
    /\ pc # "raised"
    /\ \A k \in IfcOpenShellCalls :
          /\ \A f \in StoredFormulas(QtosOf(k)) :
                \/ f = get_segment_length_name
                \/ f \in formula_functions(QtosOf(k)) /\ f \in DOMAIN raw_functions
          /\ \A n \in DOMAIN QtosOf(k) : \A q \in DOMAIN QtosOf(k)[n] :
                LET formula == QtosOf(k)[n][q]
                IN  (/\ ~StartsWith(formula, "gross")
                     /\ ~StartsWith(formula, "net")
                     /\ ~EndsWith(formula, get_segment_length_name))
                    => <<n, q>> \notin StoredQuantities(QtosOf(k))

\* C15: get_segment_length without a prefix is stored as segment_length,
\* which the task loop looks up in formula_functions: KeyError.
C15_BareSegmentLengthFails ==
    /\ pc = "raised"
    /\ \E k \in IfcOpenShellCalls :
          /\ QtosOf(k) = QtoBare
          /\ StoredFormulas(QtosOf(k)) = {<<"segment", "length">>}
          /\ <<"segment", "length">> \notin formula_functions(QtosOf(k))

\* C15, the part that holds: a prefixed formula is stored without its
\* prefix, and a formula with neither prefix nor the suffix is dropped.
C15_PrefixedAndDropped ==
    \A k \in IfcOpenShellCalls :
        \A n \in DOMAIN QtosOf(k) : \A q \in DOMAIN QtosOf(k)[n] :
            LET formula == QtosOf(k)[n][q]
            IN  /\ (StartsWith(formula, "gross") \/ StartsWith(formula, "net"))
                       => /\ <<n, q>> \in StoredQuantities(QtosOf(k))
                          /\ Tail(formula) \in StoredFormulas(QtosOf(k))
                /\ (/\ ~StartsWith(formula, "gross")
                    /\ ~StartsWith(formula, "net")
                    /\ ~EndsWith(formula, get_segment_length_name))
                       => <<n, q>> \notin StoredQuantities(QtosOf(k))

\* The iterators create_iterators made for the call.
IteratorsOf(k) == create_iterators("gross_settings", SetToSeq(calls[k].elements))

OfKind(its, kind) == {i \in 1..Len(its) : its[i].kind = kind}

SeqRange(s) == {s[i] : i \in 1..Len(s)}

TypesIteratorAsClaimed(k) ==
    LET its == IteratorsOf(k)
        types == {e \in calls[k].elements : IsTypeProduct(e)}
        others == calls[k].elements \ types
    IN  /\ Len(its) <= 2
        /\ Cardinality(OfKind(its, "IteratorForTypes")) = (IF types # {} THEN 1 ELSE 0)
        /\ Cardinality(OfKind(its, "iterator")) = (IF others # {} THEN 1 ELSE 0)
        /\ \A i \in OfKind(its, "IteratorForTypes") :
               /\ SeqRange(its[i].elements) = types
               /\ Len(its[i].elements) = Cardinality(types)

\* C16: create_iterators partitions the elements: an IteratorForTypes only
\* when there is a type product, with exactly the type products; a geometry
\* iterator only when there is another element, restricted to exactly the
\* elements that are no type products.
C16_IteratorsPartition ==
    \A k \in IfcOpenShellCalls :
        /\ TypesIteratorAsClaimed(k)
        /\ \A i \in OfKind(IteratorsOf(k), "iterator") :
               SeqRange(IteratorsOf(k)[i].elements) =
                   {e \in calls[k].elements : ~IsTypeProduct(e)}

\* C16, as the code has it: the geometry iterator is given every element of
\* the call as its include filter, the type products too.
C16_GeometryIteratorIncludesAll ==
    \A k \in IfcOpenShellCalls :
        /\ TypesIteratorAsClaimed(k)
        /\ \A i \in OfKind(IteratorsOf(k), "iterator") :
               /\ SeqRange(IteratorsOf(k)[i].elements) = calls[k].elements
               /\ Len(IteratorsOf(k)[i].elements) = Cardinality(calls[k].elements)

C16_Witness ==
    \E k \in IfcOpenShellCalls :
        /\ calls[k].elements = {1, 2}
        /\ Len(IteratorsOf(k)) = 2
        /\ IteratorsOf(k)[1] = [kind |-> "IteratorForTypes", elements |-> <<2>>]
        /\ IteratorsOf(k)[2] = [kind |-> "iterator", elements |-> <<1, 2>>]

\* ------------------------------------------- IteratorForTypes, step by step

\* The sequences without repetition over a set: list(elements) of distinct
\* entity instances.
RECURSIVE DistinctSeqs(_)
DistinctSeqs(S) ==
    {<< >>} \cup UNION {{<<x>> \o t : t \in DistinctSeqs(S \ {x})} : x \in S}

\* IteratorForTypes.__init__
IterInit ==
    /\ it_input \in DistinctSeqs(ElementIds)
    /\ it_elements = it_input
    /\ it_element = 0
    /\ it_state = "new"
    /\ init_ret = "unset"
    /\ yielded = << >>
    /\ pops = 0

Bool2Str(b) == IF b THEN "True" ELSE "False"

\* IteratorForTypes.initialize: bool(self.next())
IterInitialize ==
    /\ it_state = "new"
    /\ LET r == NextLoop(it_elements, 0)
       IN  /\ it_elements' = r.elements
           /\ it_element' = IF r.ret THEN r.element ELSE it_element
           /\ pops' = pops + r.pops
           /\ init_ret' = Bool2Str(r.ret)
           /\ it_state' = IF r.ret THEN "ready" ELSE "done"
    /\ UNCHANGED <<it_input, yielded, notIter>>

\* IteratorForTypes.get_element_and_geometry, called by the task loop.
IterGetElementAndGeometry ==
    /\ it_state = "ready"
    /\ it_element # 0
    /\ yielded' = Append(yielded, it_element)
    /\ it_state' = "got"
    /\ UNCHANGED <<it_input, it_elements, it_element, init_ret, pops, notIter>>

\* IteratorForTypes.next, called by the task loop; the loop breaks on False.
IterNext ==
    /\ it_state = "got"
    /\ LET r == NextLoop(it_elements, 0)
       IN  /\ it_elements' = r.elements
           /\ it_element' = IF r.ret THEN r.element ELSE it_element
           /\ pops' = pops + r.pops
           /\ it_state' = IF r.ret THEN "ready" ELSE "done"
    /\ UNCHANGED <<it_input, init_ret, yielded, notIter>>

IterNextStep ==
    \/ IterInitialize
    \/ IterGetElementAndGeometry
    \/ IterNext

Range(seq) == {seq[i] : i \in 1..Len(seq)}

WithRepresentation(seq) == {e \in Range(seq) : HasBodyRepresentation(e)}

\* C6: driven by initialize() and then next() until it returns False, the
\* iterator yields every given element that has a body representation exactly
\* once and no other element, pops at most len(elements) times, and
\* initialize() returns False exactly when no element has a representation.
C6_IteratorProtocol ==
    /\ \A i, j \in 1..Len(yielded) : yielded[i] = yielded[j] => i = j
    /\ Range(yielded) \subseteq WithRepresentation(it_input)
    /\ pops <= Len(it_input)
    /\ (it_state = "done") => (Range(yielded) = WithRepresentation(it_input))
    /\ (init_ret # "unset") => ((init_ret = "False") <=> (WithRepresentation(it_input) = {}))

\* The iterator was driven to the end over elements with and without a
\* representation and yielded two of them.
C6_Witness ==
    /\ it_state = "done"
    /\ Len(yielded) >= 2
    /\ Range(it_input) \ Range(yielded) # {}
    /\ pops = Len(it_input)

\* ------------------------------------------------------------------ edit_qtos

\* The file as edit_qtos sees it: qsets maps the id of a quantity set to its
\* Name and Quantities, rel maps an element to the ids of the quantity sets
\* related directly to it, next_id is the id the next new entity gets.
\* An element's type, 0 when it has none: the walls are typed by element 2.
TypeOf(e) == IF IsA(e) = "IfcWall" /\ 2 \in ElementIds THEN 2 ELSE 0

DirectQsets(file, e, name) == {id \in file.rel[e] : file.qsets[id].Name = name}

\* ifcopenshell.util.element.get_pset(element, name, should_inherit=...): the
\* id of the set of that name, 0 for None.
get_pset(file, e, name, should_inherit) ==
    IF DirectQsets(file, e, name) # {}
    THEN CHOOSE id \in DirectQsets(file, e, name) : TRUE
    ELSE IF should_inherit /\ TypeOf(e) # 0 /\ DirectQsets(file, TypeOf(e), name) # {}
         THEN CHOOSE id \in DirectQsets(file, TypeOf(e), name) : TRUE
         ELSE 0

\* ifcopenshell.api.pset.add_qto(file, product, name): a new, empty quantity
\* set of that name related to the product.
add_qto(file, e, name) ==
    [qsets |-> file.qsets @@ (file.next_id :> [Name |-> name, Quantities |-> << >>]),
     rel |-> [file.rel EXCEPT ![e] = @ \cup {file.next_id}],
     next_id |-> file.next_id + 1]

\* ifcopenshell.api.pset.edit_qto(file, qto, properties): sets the named
\* quantities of the set and leaves its other quantities alone.
edit_qto(file, qto, properties) ==
    LET old == file.qsets[qto].Quantities
    IN  [file EXCEPT !.qsets[qto].Quantities =
            [q \in DOMAIN old \cup DOMAIN properties |->
                IF q \in DOMAIN properties THEN properties[q] ELSE old[q]]]

\* Mutant: a quantity set is added without looking for an existing one.
EditQtoAlwaysAdds(file, e, name, quantities) ==
    edit_qto(add_qto(file, e, name), file.next_id, quantities)

\* The body of edit_qtos' inner loop for one element and one quantity set name.
EditQto(file, e, name, quantities) ==
    LET qto == get_pset(file, e, name, FALSE)
    IN  IF qto # 0
        THEN edit_qto(file, qto, quantities)
        ELSE edit_qto(add_qto(file, e, name), file.next_id, quantities)

\* The quantity dictionaries of the results at hand.
QtoDicts ==
    { "Qto_Base" :> ("Length" :> 3),
      "Qto_Base" :> ("Length" :> 8 @@ "Area" :> 3),
      ("Qto_Base" :> ("Length" :> 3)) @@ ("Qto_Seg" :> ("Length" :> 8)) }

ResultsDicts == UNION {[S -> QtoDicts] : S \in SUBSET ElementIds}

\* A file in which the elements of `having` carry a Qto_Base of their own.
FileWith(having) ==
    [qsets |-> [id \in having |->
                   [Name |-> "Qto_Base", Quantities |-> ("Length" :> 1 @@ "Width" :> 2)]],
     rel |-> [e \in ElementIds |-> IF e \in having THEN {e} ELSE {}],
     next_id |-> NumElements + 1]

\* results.items() and qtos.items(), flattened in iteration order.
RECURSIVE PairsSeq(_)
PairsSeq(pairs) ==
    IF pairs = {} THEN << >>
    ELSE LET p == CHOOSE x \in pairs : \A y \in pairs : x[1] <= y[1]
         IN  <<p>> \o PairsSeq(pairs \ {p})

ResultPairs(res) == UNION {{<<e, n>> : n \in DOMAIN res[e]} : e \in DOMAIN res}

EditInit ==
    /\ edit_results \in ResultsDicts
    /\ eq_file \in {FileWith(having) : having \in SUBSET ElementIds}
    /\ eq_before = eq_file
    /\ eq_first = eq_file
    /\ eq_todo = PairsSeq(ResultPairs(edit_results))
    /\ eq_round = 1

\* One iteration of the loops of edit_qtos.
EditQtosStep ==
    /\ eq_round \in {1, 2}
    /\ eq_todo # << >>
    /\ LET e == Head(eq_todo)[1]
           name == Head(eq_todo)[2]
       IN  eq_file' = EditQto(eq_file, e, name, edit_results[e][name])
    /\ eq_todo' = Tail(eq_todo)
    /\ UNCHANGED <<edit_results, eq_before, eq_first, eq_round, notEdit>>

\* edit_qtos returns; after the first application it is called again with the
\* same results.
EditQtosReturn ==
    /\ eq_round \in {1, 2}
    /\ eq_todo = << >>
    /\ eq_round' = eq_round + 1
    /\ eq_first' = IF eq_round = 1 THEN eq_file ELSE eq_first
    /\ eq_todo' = IF eq_round = 1 THEN PairsSeq(ResultPairs(edit_results)) ELSE eq_todo
    /\ UNCHANGED <<edit_results, eq_file, eq_before, notEdit>>

EditNext ==
    \/ EditQtosStep
    \/ EditQtosReturn

\* The results are applied in a file: every element of the results carries
\* directly exactly one quantity set of each name of its results, that set
\* holds the quantities of the results, and it is the set of that name the
\* element carried before edit_qtos when there was one.
ResultsApplied(file) ==
    \A e \in DOMAIN edit_results : \A n \in DOMAIN edit_results[e] :
        /\ Cardinality(DirectQsets(file, e, n)) = 1
        /\ \A id \in DirectQsets(file, e, n) :
              /\ \A q \in DOMAIN edit_results[e][n] :
                    /\ q \in DOMAIN file.qsets[id].Quantities
                    /\ file.qsets[id].Quantities[q] = edit_results[e][n][q]
              /\ DirectQsets(eq_before, e, n) # {} => id \in DirectQsets(eq_before, e, n)

MaxOther == 2

\* file.by_type(ifc_class): the entities of that class, in id order.
by_type(file, ifc_class) == SelectSeq(file, LAMBDA entity : entity.is_a = ifc_class)

\* ifcopenshell.api.structural.add_structural_analysis_model(file): a new
\* IfcStructuralAnalysisModel with the next id.
add_structural_analysis_model(file) ==
    Append(file, [id |-> Len(file) + 1, is_a |-> "IfcStructuralAnalysisModel",
                  Name |-> "Unnamed", Description |-> ""])

\* Mutant: the edit replaces the model by an edited copy with a new id.
edit_by_copy(file, model, attributes) ==
    Append(SelectSeq(file, LAMBDA entity : entity.id # model),
           [id |-> Len(file) + 1, is_a |-> "IfcStructuralAnalysisModel",
            Name |-> attributes.Name, Description |-> attributes.Description])

\* ifcopenshell.api.structural.edit_structural_analysis_model(file,
\* structural_analysis_model, attributes): sets the attributes of the entity.
edit_structural_analysis_model(file, model, attributes) ==
    [i \in 1..Len(file) |->
        IF file[i].id = model
        THEN [file[i] EXCEPT !.Name = attributes.Name, !.Description = attributes.Description]
        ELSE file[i]]

\* test.bootstrap.IFC4 / IFC2X3: a file of the schema, without structural models.
StructInit ==
    /\ st_schema \in {"IFC4", "IFC2X3"}
    /\ \E k \in 0..MaxOther :
          st_file = [i \in 1..k |-> [id |-> i, is_a |-> "IfcBuildingElementProxy",
                                     Name |-> "Unnamed", Description |-> ""]]
    /\ st_attributes \in [Name : {"My edited model", "Unnamed", ""},
                          Description : {"Description of my model", "Other", ""}]
    /\ st_subject = 0
    /\ st_state = "setup"

\* subject = add_structural_analysis_model(self.file)
TestAdd ==
    /\ st_state = "setup"
    /\ st_file' = add_structural_analysis_model(st_file)
    /\ st_subject' = Len(st_file) + 1
    /\ st_state' = "added"
    /\ UNCHANGED <<st_schema, st_attributes, notStruct>>

\* edit_structural_analysis_model(self.file, structural_analysis_model=subject, attributes=...)
TestEdit ==
    /\ st_state = "added"
    /\ st_file' = edit_structural_analysis_model(st_file, st_subject, st_attributes)
    /\ st_state' = "edited"
    /\ UNCHANGED <<st_schema, st_attributes, st_subject, notStruct>>

StructNext ==
    \/ TestAdd
    \/ TestEdit

\* C3: after the edit, in a file of either schema, the file's first
\* IfcStructuralAnalysisModel is the entity that was passed in, it is still an
\* IfcStructuralAnalysisModel with the given Name and Description, and the file
\* holds the one model that was added, no more and no fewer.
C3_EditInPlace ==
    st_state = "edited" =>
        LET models == by_type(st_file, "IfcStructuralAnalysisModel")
        IN  /\ Len(models) = 1
            /\ models[1].id = st_subject
            /\ models[1].is_a = "IfcStructuralAnalysisModel"
            /\ models[1].Name = st_attributes.Name
            /\ models[1].Description = st_attributes.Description
            /\ Len(st_file) = st_subject

\* The test's model was edited in an IFC2X3 file that holds other entities.
C3_Witness ==
    /\ st_state = "edited"
    /\ st_schema = "IFC2X3"
    /\ Len(st_file) > 1
    /\ st_attributes.Name = "My edited model"
    /\ st_attributes.Description = "Description of my model"

\* --------------------------------- alignment.py: evaluation and vertices

MaxLen == 3

MaxRows == 2

\* The classes of the entities handed to the evaluation functions.
CurveClasses ==
    {"IfcCurveSegment", "IfcCompositeCurve", "IfcGradientCurve",
     "IfcSegmentedReferenceCurve", "IfcPolyline", "IfcCompositeCurveSegment"}

\* str.upper() on the class names.
Upper(name) ==
    CASE name = "IfcCurveSegment"            -> "IFCCURVESEGMENT"
      [] name = "IfcCompositeCurve"          -> "IFCCOMPOSITECURVE"
      [] name = "IfcGradientCurve"           -> "IFCGRADIENTCURVE"
      [] name = "IfcSegmentedReferenceCurve" -> "IFCSEGMENTEDREFERENCECURVE"
      [] name = "IfcPolyline"                -> "IFCPOLYLINE"
      [] name = "IfcCompositeCurveSegment"   -> "IFCCOMPOSITECURVESEGMENT"
      [] OTHER                               -> name

Raised(error) == [kind |-> error, at |-> 0, rows |-> << >>]

\* np.array(pwf_evaluator.evaluate(dist_along)).T: the transform at dist_along.
Evaluated(dist_along) == [kind |-> "matrix", at |-> dist_along, rows |-> << >>]

supported_rep_types == {"IFCCOMPOSITECURVE", "IFCGRADIENTCURVE", "IFCSEGMENTEDREFERENCECURVE"}

\* Mutant: the gradient curve is missing from the supported types.
evaluate_representation_fewer(is_a, dist_along) ==
    IF Upper(is_a) \notin {"IFCCOMPOSITECURVE", "IFCSEGMENTEDREFERENCECURVE"}
    THEN Raised("NotImplementedError")
    ELSE Evaluated(dist_along)

evaluate_representation(is_a, dist_along) ==
    IF ~(Upper(is_a) \in supported_rep_types)
    THEN Raised("NotImplementedError")
    ELSE Evaluated(dist_along)

supported_segment_types == {"IFCCURVESEGMENT"}

\* Mutant: the end of the segment is rejected too.
evaluate_segment_strict(is_a, SegmentLength, dist_along) ==
    IF ~(Upper(is_a) \in supported_segment_types)
    THEN Raised("NotImplementedError")
    ELSE IF dist_along >= SegmentLength
         THEN Raised("ValueError")
         ELSE Evaluated(dist_along)

evaluate_segment(is_a, SegmentLength, dist_along) ==
    IF ~(Upper(is_a) \in supported_segment_types)
    THEN Raised("NotImplementedError")
    ELSE IF dist_along > SegmentLength
         THEN Raised("ValueError")
         ELSE Evaluated(dist_along)

\* np.array(vertices).reshape((-1, 3)); numpy raises ValueError when the
\* length is not a multiple of 3.
Reshape3(vertices) ==
    IF Len(vertices) % 3 # 0
    THEN Raised("ValueError")
    ELSE [kind |-> "array", at |-> 0,
          rows |-> [i \in 1..(Len(vertices) \div 3) |->
                       <<vertices[3 * i - 2], vertices[3 * i - 1], vertices[3 * i]>>]]

\* Mutant: the coordinates are grouped column by column: reshape((3, -1)).T
generate_vertices_transposed(rep_none, vertices) ==
    IF rep_none THEN Raised("ValueError")
    ELSE IF Len(vertices) = 0 THEN Raised("ValueError")
    ELSE LET n == Len(vertices) \div 3
         IN  [kind |-> "array", at |-> 0,
              rows |-> [i \in 1..n |-> <<vertices[i], vertices[n + i], vertices[2 * n + i]>>]]

generate_vertices(rep_none, vertices) ==
    IF rep_none THEN Raised("ValueError")
    ELSE IF Len(vertices) = 0 THEN Raised("ValueError")
    ELSE Reshape3(vertices)

\* shape.verts: a flat list of x, y, z coordinates, three per vertex.
RECURSIVE SeqsOfLen(_, _)
SeqsOfLen(S, n) ==
    IF n = 0 THEN {<< >>}
    ELSE {<<x>> \o t : x \in S, t \in SeqsOfLen(S, n - 1)}

VertexLists == UNION {SeqsOfLen({0, 1}, 3 * k) : k \in 0..MaxRows}

Pending == [kind |-> "pending", at |-> 0, rows |-> << >>]

AlignInit ==
    /\ al_fn \in {"evaluate_segment", "evaluate_representation", "generate_vertices"}
    /\ al_out = Pending
    /\ IF al_fn = "generate_vertices"
       THEN /\ al_is_a = "IfcCompositeCurve" /\ al_length = 0 /\ al_dist = 0
            /\ al_none \in BOOLEAN
            /\ al_verts \in VertexLists
       ELSE /\ al_is_a \in CurveClasses
            /\ al_length \in (0 - MaxLen)..MaxLen
            /\ al_dist \in (0 - 1)..(MaxLen + 1)
            /\ al_none = FALSE
            /\ al_verts = << >>

AlignInputsUnchanged ==
    UNCHANGED <<al_fn, al_is_a, al_length, al_dist, al_none, al_verts, notAlign>>

EvaluateSegment ==
    /\ al_fn = "evaluate_segment" /\ al_out = Pending
    /\ al_out' = evaluate_segment(al_is_a, al_length, al_dist)
    /\ AlignInputsUnchanged

EvaluateRepresentation ==
    /\ al_fn = "evaluate_representation" /\ al_out = Pending
    /\ al_out' = evaluate_representation(al_is_a, al_dist)
    /\ AlignInputsUnchanged

GenerateVertices ==
    /\ al_fn = "generate_vertices" /\ al_out = Pending
    /\ al_out' = generate_vertices(al_none, al_verts)
    /\ AlignInputsUnchanged

AlignNext ==
    \/ EvaluateSegment
    \/ EvaluateRepresentation
    \/ GenerateVertices

\* C7: evaluate_segment raises NotImplementedError when the entity is not an
\* IfcCurveSegment, whatever the distance; otherwise it raises ValueError when
\* dist_along is greater than SegmentLength, and evaluates the transform at
\* dist_along exactly when dist_along does not exceed SegmentLength.
C7_EvaluateSegment ==
    (al_fn = "evaluate_segment" /\ al_out # Pending) =>
        /\ (al_is_a # "IfcCurveSegment") <=> (al_out.kind = "NotImplementedError")
        /\ (al_is_a = "IfcCurveSegment" /\ al_dist > al_length) <=> (al_out.kind = "ValueError")
        /\ (al_is_a = "IfcCurveSegment" /\ al_dist <= al_length)
              <=> (al_out.kind = "matrix" /\ al_out.at = al_dist)

\* evaluate_segment evaluated a curve segment at its very end.
C7_Witness ==
    /\ al_fn = "evaluate_segment"
    /\ al_is_a = "IfcCurveSegment"
    /\ al_dist = al_length
    /\ al_dist > 0
    /\ al_out.kind = "matrix"

\* C8: evaluate_representation raises NotImplementedError exactly when the
\* representation is not an IfcCompositeCurve, IfcGradientCurve or
\* IfcSegmentedReferenceCurve; for those it evaluates at dist_along, also when
\* the distance lies outside the curve.
C8_EvaluateRepresentation ==
    (al_fn = "evaluate_representation" /\ al_out # Pending) =>
        IF al_is_a \in {"IfcCompositeCurve", "IfcGradientCurve", "IfcSegmentedReferenceCurve"}
        THEN al_out.kind = "matrix" /\ al_out.at = al_dist
        ELSE al_out.kind = "NotImplementedError"

\* evaluate_representation evaluated a gradient curve beyond its end.
C8_Witness ==
    /\ al_fn = "evaluate_representation"
    /\ al_is_a = "IfcGradientCurve"
    /\ al_length >= 0
    /\ al_dist > al_length
    /\ al_out.kind = "matrix"

RECURSIVE Flatten(_)
Flatten(rows) == IF rows = << >> THEN << >> ELSE Head(rows) \o Flatten(Tail(rows))

\* C9: generate_vertices raises ValueError when rep_curve is None and when the
\* shape has no vertices; otherwise it returns rows of exactly 3 coordinates
\* that hold the vertices in the order produced, one row per 3 coordinates.
C9_GenerateVertices ==
    (al_fn = "generate_vertices" /\ al_out # Pending) =>
        IF al_none \/ Len(al_verts) = 0
        THEN al_out.kind = "ValueError"
        ELSE /\ al_out.kind = "array"
             /\ 3 * Len(al_out.rows) = Len(al_verts)
             /\ \A i \in 1..Len(al_out.rows) : Len(al_out.rows[i]) = 3
             /\ Flatten(al_out.rows) = al_verts

\* generate_vertices returned two rows of distinct coordinates.
C9_Witness ==
    /\ al_fn = "generate_vertices"
    /\ al_out.kind = "array"
    /\ Len(al_out.rows) = 2
    /\ al_verts = <<0, 1, 1, 0, 0, 1>>

\* ----------------------------------------- _create_horizontal_alignment (alignment.py)
\* The PI layout method.  The coordinates are floats in the code; the model
\* keeps what decides the control flow and the shape of the lists:
\*  - a point the code computes without rounding is Point("XY", <<x, y>>);
\*    PC and PT of a curve of non-zero radius are Point("PC", pi) and
\*    Point("PT", pi), pi being the PI they are laid out from (with radius 0
\*    the tangent length is 0.0 and both are the PI itself);
\*  - a length is "0.0" where the code computes exactly zero, and else the
\*    name of the expression that gives it ("tangent_run", "lc");
\*  - the radius of a segment is kept without the sign line 310 gives it.
MaxRadii == 2

\* Where the PIs are drawn from, and the radii of the curves.
HzGrid == {<<0, 0>>, <<100, 0>>, <<200, 0>>, <<100, 100>>}

HzRadii == {0, 10}

Vec(p, q) == <<q[1] - p[1], q[2] - p[2]>>

Cross(a, b) == a[1] * b[2] - a[2] * b[1]

Dot(a, b) == a[1] * b[1] + a[2] * b[2]

\* math.atan2 gives the two (non-zero) vectors the same angle.
SameAngle(a, b) == Cross(a, b) = 0 /\ Dot(a, b) > 0

DoublesBack(a, b) == Cross(a, b) = 0 /\ Dot(a, b) < 0

Leg(points, j) == Vec(points[j], points[j + 1])

\* The layouts of the model: consecutive PIs differ and no PI turns the
\* alignment back onto the tangent it came along.
IsLayout(points) ==
    /\ \A j \in 1..(Len(points) - 1) : points[j] # points[j + 1]
    /\ \A j \in 1..(Len(points) - 2) : ~DoublesBack(Leg(points, j), Leg(points, j + 1))

Layouts == UNION {{p \in [1..(n + 2) -> HzGrid] : IsLayout(p)} : n \in 0..MaxRadii}

Point(kind, xy) == [kind |-> kind, xy |-> xy]

\* An IfcAlignmentHorizontalSegment (the IfcAlignmentSegment that wraps it
\* carries nothing else here).
HorizontalSegment(tag, start_point, radius, length, type) ==
    [StartTag |-> tag, EndTag |-> tag, StartPoint |-> start_point,
     StartRadiusOfCurvature |-> radius, SegmentLength |-> length, PredefinedType |-> type]

CurveSegment(parent_curve, segment) ==
    [ParentCurve |-> parent_curve, Location |-> segment.StartPoint,
     SegmentLength |-> segment.SegmentLength]

\* Line 255 divides by abs(start_radius).
MapRaises(segment) ==
    segment.PredefinedType = "CIRCULARARC" /\ segment.StartRadiusOfCurvature = 0

\* The first value _map_alignment_horizontal_segment returns, when it returns.
map_alignment_horizontal_segment(segment) ==
    IF segment.PredefinedType = "LINE" THEN CurveSegment("IfcLine", segment)
    ELSE IF segment.PredefinedType = "CIRCULARARC" THEN CurveSegment("IfcCircle", segment)
    ELSE CurveSegment("None", segment)

\* horizontal_curve_segments.append(...) under `if include_geometry:`.
AppendCurve(curve_segments, geometry, segment) ==
    IF geometry THEN Append(curve_segments, map_alignment_horizontal_segment(segment))
    ELSE curve_segments

CompositeCurve(is_none, segments) == [is_none |-> is_none, Segments |-> segments]

HzInit ==
    /\ hz_points \in Layouts
    /\ hz_radii \in [1..(Len(hz_points) - 2) -> HzRadii]
    /\ include_geometry \in BOOLEAN
    /\ hz_i = 1
    /\ hz_BT = Point("XY", hz_points[1])
    /\ horizontal_segments = << >>
    /\ horizontal_curve_segments = << >>
    /\ composite_curve = CompositeCurve(TRUE, << >>)
    /\ hz_state = "loop"

HzInputsUnchanged == UNCHANGED <<hz_points, hz_radii, include_geometry, notHoriz>>

\* (xPI, yPI) and (xFT, yFT) of the iteration under way.
HzPI == hz_points[hz_i + 1]

HzFT == hz_points[hz_i + 2]

InLoop == hz_state = "loop" /\ hz_i <= Len(hz_radii)

\* The two tangents at the PI have the same direction.
Straight == SameAngle(Vec(hz_BT.xy, HzPI), Vec(HzPI, HzFT))

\* delta == 0.0.  When (xBT, yBT) is a PT the code computed with a rounding,
\* the rounding decides whether angleBT is exactly the angle of the leg.
DeltaCanBeZero == Straight

DeltaCanBeNonZero == ~Straight \/ hz_BT.kind # "XY"

BackTangent == HorizontalSegment("None", hz_BT, 0, "tangent_run", "LINE")

CircularCurve(radius) ==
    HorizontalSegment("None", IF radius = 0 THEN Point("XY", HzPI) ELSE Point("PC", HzPI),
                      radius, IF radius = 0 THEN "0.0" ELSE "lc", "CIRCULARARC")

\* Line 310: radius *= delta / abs(delta).
CurveDeltaZero ==
    /\ InLoop
    /\ DeltaCanBeZero
    /\ hz_state' = "ZeroDivisionError"
    /\ UNCHANGED <<hz_i, hz_BT, horizontal_segments, horizontal_curve_segments, composite_curve>>
    /\ HzInputsUnchanged

\* Line 384: the curve of the circular arc cannot be made.
CurveMapRaises ==
    /\ InLoop
    /\ DeltaCanBeNonZero
    /\ include_geometry /\ MapRaises(CircularCurve(hz_radii[hz_i]))
    /\ horizontal_segments' =
           Append(Append(horizontal_segments, BackTangent), CircularCurve(hz_radii[hz_i]))
    /\ horizontal_curve_segments' =
           AppendCurve(horizontal_curve_segments, include_geometry, BackTangent)
    /\ hz_i' = hz_i + 1
    /\ hz_state' = "ZeroDivisionError"
    /\ UNCHANGED <<hz_BT, composite_curve>>
    /\ HzInputsUnchanged

\* One turn of `for radius in radii:`.
Curve ==
    /\ InLoop
    /\ DeltaCanBeNonZero
    /\ ~(include_geometry /\ MapRaises(CircularCurve(hz_radii[hz_i])))
    /\ LET radius == hz_radii[hz_i]
       IN  /\ horizontal_segments' =
                  Append(Append(horizontal_segments, BackTangent), CircularCurve(radius))
           /\ horizontal_curve_segments' =
                  AppendCurve(AppendCurve(horizontal_curve_segments, include_geometry, BackTangent),
                              include_geometry, CircularCurve(radius))
           /\ hz_BT' = IF radius = 0 THEN Point("XY", HzPI) ELSE Point("PT", HzPI)
    /\ hz_i' = hz_i + 1
    /\ UNCHANGED <<composite_curve, hz_state>>
    /\ HzInputsUnchanged

\* After the loop: the last tangent run, the terminator, the composite curve.
LastTangentAndTerminator ==
    /\ hz_state = "loop" /\ hz_i > Len(hz_radii)
    /\ LET last == HorizontalSegment("None", hz_BT, 0, "tangent_run", "LINE")
           terminator == HorizontalSegment("POE", Point("XY", HzPI), 0, "0.0", "LINE")
           curves == AppendCurve(AppendCurve(horizontal_curve_segments, include_geometry, last),
                                 include_geometry, terminator)
       IN  /\ horizontal_segments' =
                  Append(Append(horizontal_segments, last), terminator)
           /\ horizontal_curve_segments' = curves
           /\ composite_curve' = IF include_geometry THEN CompositeCurve(FALSE, curves)
                                 ELSE CompositeCurve(TRUE, << >>)
    /\ hz_state' = "returned"
    /\ UNCHANGED <<hz_i, hz_BT>>
    /\ HzInputsUnchanged

HzNext ==
    \/ CurveDeltaZero
    \/ CurveMapRaises
    \/ Curve
    \/ LastTangentAndTerminator

\* What the lists are when the function returns.
ReturnedLists ==
    LET n == Len(hz_radii)
        segs == horizontal_segments
    IN  /\ Len(segs) = 2 * n + 2
        /\ \A r \in 1..n : /\ segs[2 * r - 1].PredefinedType = "LINE"
                           /\ segs[2 * r].PredefinedType = "CIRCULARARC"
                           /\ segs[2 * r].StartRadiusOfCurvature = hz_radii[r]
        /\ segs[2 * n + 1].PredefinedType = "LINE"
        /\ segs[2 * n + 2] = HorizontalSegment("POE", Point("XY", hz_points[n + 2]), 0, "0.0", "LINE")
        /\ \A j \in 1..(2 * n + 1) : segs[j].StartTag = "None" /\ segs[j].EndTag = "None"
        /\ IF include_geometry
           THEN /\ Len(horizontal_curve_segments) = Len(segs)
                /\ \A j \in 1..Len(segs) :
                       /\ horizontal_curve_segments[j].Location = segs[j].StartPoint
                       /\ horizontal_curve_segments[j].ParentCurve =
                              (IF segs[j].PredefinedType = "LINE" THEN "IfcLine" ELSE "IfcCircle")
                /\ composite_curve = CompositeCurve(FALSE, horizontal_curve_segments)
           ELSE /\ horizontal_curve_segments = << >>
                /\ composite_curve.is_none

\* C10: for n radii and n+2 PI points _create_horizontal_alignment returns
\* 2n+2 segments: a LINE and a CIRCULARARC per radius, the last LINE and the
\* zero-length LINE tagged POE/POE at the last point; with include_geometry
\* the curve segments have the same length and order and the composite curve
\* holds them, without it the list is empty and the composite curve is None.
C10_ReturnsSegments ==
    /\ hz_state # "ZeroDivisionError"
    /\ hz_state = "returned" => ReturnedLists

\* C10, for the calls that return: the lists are as the claim says.
C10_ListsWhenReturned == hz_state = "returned" => ReturnedLists

C10_Witness ==
    /\ hz_state = "returned"
    /\ Len(hz_radii) = 2
    /\ include_geometry
    /\ Len(horizontal_curve_segments) = 6

\* C10: a PI on a straight run of the alignment: line 310 divides by zero.
C10_DivisionByZero ==
    /\ hz_state = "ZeroDivisionError"
    /\ hz_points = <<<<0, 0>>, <<100, 0>>, <<200, 0>>>>
    /\ hz_radii = <<10>>
    /\ horizontal_segments = << >>

\* ----------------------------------------------- add_alignment (alignment.py)
\* The entities of the file are records; a reference to an entity is Ref of
\* its type and, for an alignment segment, its position in horizontal_segments.
\* A name is the sequence of its characters; None is << >>.
Ref(type, n) == [type |-> type, n |-> n]

NoRef == Ref("None", 0)

Entity(type, name, relating, related, representation) ==
    [type |-> type, Name |-> name, RelatingObject |-> relating,
     RelatedObjects |-> related, Representation |-> representation]

Digits == <<"0", "1", "2", "3", "4", "5", "6", "7", "8", "9">>

RECURSIVE Decimal(_)
\* str(k) of a natural number, as an f-string formats it.
Decimal(k) == IF k < 10 THEN <<Digits[k + 1]>> ELSE Decimal(k \div 10) \o <<Digits[(k % 10) + 1]>>

\* Mutant: the names count from 0, as enumerate does.
name_segments_from_zero(prefix, segments) ==
    [j \in 1..Len(segments) |-> LET i == j - 1 IN <<prefix>> \o Decimal(i)]

\* The names by position; enumerate counts from 0 and TLA+ sequences from 1.
name_segments(prefix, segments) ==
    [j \in 1..Len(segments) |-> LET i == j - 1 IN <<prefix>> \o Decimal(i + 1)]

SegmentRefs(segments) == [j \in 1..Len(segments) |-> Ref("IfcAlignmentSegment", j)]

\* _create_segment_representations: zip stops at the shorter list.
create_segment_representations(curve_segments, segments) ==
    [j \in 1..Len(segments) |->
        IF j <= Len(curve_segments) THEN "IfcProductDefinitionShape" ELSE "None"]

\* The file made by ifcopenshell.template.create has its IfcProject.
TemplateFile == <<Entity("IfcProject", << >>, NoRef, << >>, "None")>>

\* Lines 487-525: what is created whatever include_geometry is.
BusinessLogic(segments) ==
    <<Entity("IfcAlignmentHorizontal", <<"alignment_name", " - Horizontal">>, NoRef, << >>, "None"),
      Entity("IfcRelNests", <<"Nests horizontal alignment segments under horizontal alignment">>,
             Ref("IfcAlignmentHorizontal", 0), SegmentRefs(segments), "None"),
      Entity("IfcLocalPlacement", << >>, NoRef, << >>, "None")>>

Alignment(representation) == Entity("IfcAlignment", <<"alignment_name">>, NoRef, << >>, representation)

\* Lines 528-593: what is created under `if include_geometry:`.
Geometry ==
    <<Entity("IfcShapeRepresentation", <<"FootPrint">>, NoRef, << >>, "None"),
      Entity("IfcProductDefinitionShape", <<"Alignment Product Definition Shape">>, NoRef, << >>, "None"),
      Entity("IfcReferent", <<"Start Station">>, NoRef, << >>, "None"),
      Entity("IfcRelNests", <<"Nests horizontal alignment and referents under overall alignment">>,
             Ref("IfcAlignment", 0), <<Ref("IfcAlignmentHorizontal", 0), Ref("IfcReferent", 0)>>, "None"),
      Entity("IfcRelAggregates", <<"Aggregates alignment under the project">>,
             Ref("IfcProject", 0), <<Ref("IfcAlignment", 0)>>, "None")>>

add_horizontal_alignment(file, segments, geometry) ==
    IF geometry
    THEN file \o BusinessLogic(segments) \o <<Alignment("IfcProductDefinitionShape")>> \o Geometry
    ELSE file \o BusinessLogic(segments) \o <<Alignment("None")>>

AddInit ==
    /\ segment_names = << >>
    /\ segment_representations = << >>
    /\ ifc_file = TemplateFile
    /\ add_state = "pending"
    /\ vertical_ret = "pending"

\* Line 484, after _create_horizontal_alignment has returned.
NameSegments ==
    /\ hz_state = "returned" /\ add_state = "pending"
    /\ segment_names' = name_segments("H", horizontal_segments)
    /\ add_state' = "named"
    /\ UNCHANGED <<segment_representations, ifc_file, vertical_ret>>
    /\ UNCHANGED notAdd

\* Lines 486-595: the rest of _add_horizontal_alignment, and add_alignment returns.
AddHorizontalAlignment ==
    /\ add_state = "named"
    /\ ifc_file' = add_horizontal_alignment(ifc_file, horizontal_segments, include_geometry)
    /\ segment_representations' =
           IF include_geometry
           THEN create_segment_representations(horizontal_curve_segments, horizontal_segments)
           ELSE [j \in 1..Len(horizontal_segments) |-> "None"]
    /\ add_state' = "added"
    /\ UNCHANGED <<segment_names, vertical_ret>>
    /\ UNCHANGED notAdd

\* add_vertical_alignment is `pass`: it returns None and touches nothing.  It
\* is called on a fresh helper or after add_alignment has returned.
AddVerticalAlignment ==
    /\ vertical_ret = "pending"
    /\ \/ add_state = "added"
       \/ add_state = "pending" /\ hz_state = "loop" /\ hz_i = 1
    /\ vertical_ret' = "None"
    /\ UNCHANGED <<segment_names, segment_representations, ifc_file, add_state>>
    /\ UNCHANGED notAdd

AddNext ==
    \/ CurveDeltaZero
    \/ CurveMapRaises
    \/ Curve
    \/ LastTangentAndTerminator
    \/ NameSegments
    \/ AddHorizontalAlignment
    \/ AddVerticalAlignment

\* The relationships of the file with the given relating and related objects.
Relates(type, relating, related) ==
    \E k \in 1..Len(ifc_file) :
        /\ ifc_file[k].type = type
        /\ ifc_file[k].RelatingObject = relating
        /\ ifc_file[k].RelatedObjects = related

\* C11: name_segments names the i-th segment (from 0) prefix followed by
\* i+1; after add_alignment the horizontal segments are H1 .. H(2n+2) in
\* nesting order, consecutive from 1, no two with the same name.
C11_SegmentNames ==
    add_state = "added" =>
        LET n == Len(hz_radii)
        IN  /\ Len(segment_names) = 2 * n + 2
            /\ Len(horizontal_segments) = 2 * n + 2
            /\ \A j \in 1..(2 * n + 2) : segment_names[j] = <<"H">> \o Decimal(j)
            /\ segment_names[1] = <<"H", "1">>
            /\ \A j, k \in 1..(2 * n + 2) : j # k => segment_names[j] # segment_names[k]
            /\ Relates("IfcRelNests", Ref("IfcAlignmentHorizontal", 0),
                       [j \in 1..(2 * n + 2) |-> Ref("IfcAlignmentSegment", j)])

C11_Witness ==
    /\ add_state = "added"
    /\ Len(hz_radii) = 2
    /\ segment_names[6] = <<"H", "6">>

\* child is among the related objects of a relationship of parent.
Under(type, child, parent) ==
    \E k \in 1..Len(ifc_file) :
        /\ ifc_file[k].type = type
        /\ ifc_file[k].RelatingObject = parent
        /\ \E j \in 1..Len(ifc_file[k].RelatedObjects) : ifc_file[k].RelatedObjects[j] = child

SegmentsNested ==
    Relates("IfcRelNests", Ref("IfcAlignmentHorizontal", 0), SegmentRefs(horizontal_segments))

HorizontalNested == Under("IfcRelNests", Ref("IfcAlignmentHorizontal", 0), Ref("IfcAlignment", 0))

AlignmentAggregated == Under("IfcRelAggregates", Ref("IfcAlignment", 0), Ref("IfcProject", 0))

\* C12: whatever include_geometry is, after add_alignment the horizontal
\* alignment with its segments is nested under the IfcAlignment and the
\* IfcAlignment is aggregated under the IfcProject.
C12_BusinessLogicAlways ==
    add_state = "added" => SegmentsNested /\ HorizontalNested /\ AlignmentAggregated

\* C12, with include_geometry = True: the nesting and the aggregation are made.
C12_BusinessLogicWithGeometry ==
    add_state = "added" /\ include_geometry =>
        SegmentsNested /\ HorizontalNested /\ AlignmentAggregated

\* C12, with include_geometry = False: the alignment is left on its own.
C12_NotNestedWithoutGeometry ==
    /\ add_state = "added"
    /\ ~include_geometry
    /\ SegmentsNested
    /\ ~HorizontalNested
    /\ ~AlignmentAggregated

\* C13: after add_vertical_alignment the file holds a vertical alignment.
C13_VerticalAlignmentCreated ==
    vertical_ret = "None" => \E k \in 1..Len(ifc_file) : ifc_file[k].type = "IfcAlignmentVertical"

\* C13: the call has returned and the file of the new helper is as it was.
C13_FileUnchanged ==
    /\ vertical_ret = "None"
    /\ add_state = "pending"
    /\ ifc_file = TemplateFile

\* ------------------------------------------- bim.load_layers (layer/operator.py)
\* Python None is "None" for a name; an IfcLogical is "True", "False" or
\* "UNKNOWN"; a property of a new entry that the operator does not set is
\* "default".
MaxLayers == 2

PresentationLayer(id, name, class, on, frozen, blocked) ==
    [id |-> id, Name |-> name, class |-> class,
     LayerOn |-> on, LayerFrozen |-> frozen, LayerBlocked |-> blocked]

\* The layers a file is made of.
SampleLayers ==
    {PresentationLayer(7, "A", "IfcPresentationLayerAssignment", "None", "None", "None"),
     PresentationLayer(5, "", "IfcPresentationLayerAssignment", "None", "None", "None"),
     PresentationLayer(9, "None", "IfcPresentationLayerWithStyle", "True", "False", "UNKNOWN"),
     PresentationLayer(3, "B", "IfcPresentationLayerWithStyle", "UNKNOWN", "True", "False")}

RECURSIVE LayerSeqs(_)
\* The sequences of n distinct layers.
LayerSeqs(n) ==
    IF n = 0 THEN {<< >>}
    ELSE {Append(s, l) : s \in LayerSeqs(n - 1), l \in SampleLayers} \cap
         {s \in [1..n -> SampleLayers] : \A j, k \in 1..n : j # k => s[j].id # s[k].id}

LayerFiles == UNION {LayerSeqs(n) : n \in 0..MaxLayers}

LayerIsA(layer, class) ==
    \/ layer.class = class
    \/ class = "IfcPresentationLayerAssignment"

\* Python truthiness of layer.Name.
NameIsFalsy(name) == name = "None" \/ name = ""

ifc_logical_is_true(x) == IF x = "True" THEN "True" ELSE "False"

LayerEntry(name, id, with_style, on, frozen, blocked) ==
    [name |-> name, ifc_definition_id |-> id, with_style |-> with_style,
     on |-> on, frozen |-> frozen, blocked |-> blocked]

\* The entry the body of the loop makes for one layer.
NewEntry(layer) ==
    LET name == IF NameIsFalsy(layer.Name) THEN "Unnamed" ELSE layer.Name
    IN  IF LayerIsA(layer, "IfcPresentationLayerWithStyle")
        THEN LayerEntry(name, layer.id, TRUE, ifc_logical_is_true(layer.LayerOn),
                        ifc_logical_is_true(layer.LayerFrozen),
                        ifc_logical_is_true(layer.LayerBlocked))
        ELSE LayerEntry(name, layer.id, FALSE, "default", "default", "default")

\* Mutant: props.layers.clear() is missing.
clear_keeps(layers) == layers

\* props.layers.clear()
clear(layers) == << >>

RECURSIVE AddEntries(_, _)
\* The loop over the layers of the file: props.layers.add() appends.
AddEntries(layers, file) ==
    IF file = << >> THEN layers
    ELSE AddEntries(Append(layers, NewEntry(Head(file))), Tail(file))

StaleEntries ==
    {<< >>,
     <<LayerEntry("Old", 11, FALSE, "default", "default", "default")>>,
     <<LayerEntry("A", 7, TRUE, "True", "True", "True"),
       LayerEntry("Old", 11, FALSE, "default", "default", "default")>>}

LayerInit ==
    /\ ly_file \in LayerFiles
    /\ props_layers \in StaleEntries
    /\ is_editing \in BOOLEAN
    /\ active_layer_id \in {0, 7}
    /\ ly_last = "none"

\* LoadLayers.execute, bpy.ops.bim.disable_editing_layer() included.
LoadLayers ==
    /\ props_layers' = AddEntries(clear(props_layers), ly_file)
    /\ is_editing' = TRUE
    /\ active_layer_id' = 0
    /\ ly_last' = "bim.load_layers"
    /\ UNCHANGED ly_file
    /\ UNCHANGED notLayer

DisableLayerEditingUI ==
    /\ is_editing' = FALSE
    /\ ly_last' = "bim.disable_layer_editing_ui"
    /\ UNCHANGED <<ly_file, props_layers, active_layer_id>>
    /\ UNCHANGED notLayer

\* EnableEditingLayer.execute for a layer of the list (by_id finds it).
EnableEditingLayer ==
    /\ \E j \in 1..Len(ly_file) :
           active_layer_id' = ly_file[j].id
    /\ ly_last' = "bim.enable_editing_layer"
    /\ UNCHANGED <<ly_file, props_layers, is_editing>>
    /\ UNCHANGED notLayer

DisableEditingLayer ==
    /\ active_layer_id' = 0
    /\ ly_last' = "bim.disable_editing_layer"
    /\ UNCHANGED <<ly_file, props_layers, is_editing>>
    /\ UNCHANGED notLayer

LayerNext ==
    \/ LoadLayers
    \/ DisableLayerEditingUI
    \/ EnableEditingLayer
    \/ DisableEditingLayer

\* C14: after bim.load_layers props.layers holds exactly one entry per
\* IfcPresentationLayerAssignment of the file, in file order, with the
\* layer's id as ifc_definition_id and its Name ("Unnamed" when empty) as
\* name; the entries from before are gone, is_editing is True and
\* active_layer_id is 0.
C14_LayersMirrorFile ==
    ly_last = "bim.load_layers" =>
        /\ Len(props_layers) = Len(ly_file)
        /\ \A j \in 1..Len(ly_file) :
               /\ props_layers[j].ifc_definition_id = ly_file[j].id
               /\ props_layers[j].name =
                      (IF ly_file[j].Name \in {"", "None"} THEN "Unnamed" ELSE ly_file[j].Name)
        /\ is_editing = TRUE
        /\ active_layer_id = 0

C14_Witness ==
    /\ ly_last = "bim.load_layers"
    /\ Len(ly_file) = 2
    /\ ly_file[1].id = 9 /\ ly_file[2].id = 7
    /\ props_layers[1].name = "Unnamed" /\ props_layers[2].name = "A"
    /\ \A j \in 1..Len(props_layers) : props_layers[j].ifc_definition_id # 11

\* ------------------------------------------------------------- specifications

QtoIdle ==
    /\ elements = {}
    /\ rules = << >>
    /\ project_units = [m \in Measures |-> NoUnit]
    /\ nullFns = {}
    /\ results = << >>
    /\ calls = << >>
    /\ idx = 1
    /\ pc = "idle"

IterIdle ==
    /\ it_input = << >>
    /\ it_elements = << >>
    /\ it_element = 0
    /\ it_state = "idle"
    /\ init_ret = "unset"
    /\ yielded = << >>
    /\ pops = 0

EditIdle ==
    /\ edit_results = << >>
    /\ eq_file = FileWith({})
    /\ eq_before = FileWith({})
    /\ eq_first = FileWith({})
    /\ eq_todo = << >>
    /\ eq_round = 0

StructIdle ==
    /\ st_schema = "IFC4"
    /\ st_file = << >>
    /\ st_attributes = [Name |-> "", Description |-> ""]
    /\ st_subject = 0
    /\ st_state = "idle"

AlignIdle ==
    /\ al_fn = "idle"
    /\ al_is_a = "IfcCompositeCurve"
    /\ al_length = 0
    /\ al_dist = 0
    /\ al_none = FALSE
    /\ al_verts = << >>
    /\ al_out = Pending

HorizIdle ==
    /\ hz_points = << >>
    /\ hz_radii = << >>
    /\ include_geometry = FALSE
    /\ hz_i = 0
    /\ hz_BT = Point("XY", <<0, 0>>)
    /\ horizontal_segments = << >>
    /\ horizontal_curve_segments = << >>
    /\ composite_curve = CompositeCurve(TRUE, << >>)
    /\ hz_state = "idle"

AddIdle ==
    /\ segment_names = << >>
    /\ segment_representations = << >>
    /\ ifc_file = << >>
    /\ add_state = "idle"
    /\ vertical_ret = "idle"

LayerIdle ==
    /\ ly_file = << >>
    /\ props_layers = << >>
    /\ is_editing = FALSE
    /\ active_layer_id = 0
    /\ ly_last = "idle"

\* quantify on a file, with one of the rule tables.
Init == QtoInit /\ IterIdle /\ EditIdle /\ StructIdle /\ AlignIdle /\ HorizIdle /\ AddIdle /\ LayerIdle

Next ==
    \/ QuantifySkip
    \/ QuantifyBlender
    \/ QuantifyIfcOpenShell
    \/ QuantifyRaises
    \/ QuantifyReturn

Spec == Init /\ [][Next]_vars

\* An IteratorForTypes over elements of a file, driven as calculate drives it.
InitIterator == IterInit /\ QtoIdle /\ EditIdle /\ StructIdle /\ AlignIdle /\ HorizIdle /\ AddIdle /\ LayerIdle /\ solid \in SUBSET ElementIds

SpecIterator == InitIterator /\ [][IterNextStep]_vars

\* edit_qtos applied twice to a file, with the same results.
InitEditQtos == EditInit /\ QtoIdle /\ IterIdle /\ StructIdle /\ AlignIdle /\ HorizIdle /\ AddIdle /\ LayerIdle /\ solid = {}

SpecEditQtos == InitEditQtos /\ [][EditNext]_vars

\* The test of edit_structural_analysis_model, in both schemas.
InitStructural == StructInit /\ QtoIdle /\ IterIdle /\ EditIdle /\ AlignIdle /\ HorizIdle /\ AddIdle /\ LayerIdle /\ solid = {}

SpecStructural == InitStructural /\ [][StructNext]_vars

\* One call of evaluate_segment, evaluate_representation or generate_vertices.
InitAlignment == AlignInit /\ QtoIdle /\ IterIdle /\ EditIdle /\ StructIdle /\ HorizIdle /\ AddIdle /\ LayerIdle /\ solid = {}

SpecAlignment == InitAlignment /\ [][AlignNext]_vars

\* One call of _create_horizontal_alignment on a PI layout.
InitHorizontal ==
    HzInit /\ QtoIdle /\ IterIdle /\ EditIdle /\ StructIdle /\ AlignIdle /\ AddIdle /\ LayerIdle /\ solid = {}

SpecHorizontal == InitHorizontal /\ [][HzNext]_vars

\* add_alignment on the file of a new helper, and add_vertical_alignment.
InitAddAlignment ==
    HzInit /\ AddInit /\ LayerIdle /\ QtoIdle /\ IterIdle /\ EditIdle /\ StructIdle /\ AlignIdle /\ solid = {}

SpecAddAlignment == InitAddAlignment /\ [][AddNext]_vars

\* The layer operators on a scene whose layer list may be stale.
InitLayers ==
    /\ LayerInit /\ QtoIdle /\ IterIdle /\ EditIdle /\ StructIdle /\ AlignIdle
    /\ HorizIdle /\ AddIdle /\ solid = {}

SpecLayers == InitLayers /\ [][LayerNext]_vars

====
